---------------------------- MODULE Spec2Model ----------------------------
(***************************************************************************)
(* IPv4 Link-Local (APIPA / RFC 3927) address autoconfiguration of iPXE:   *)
(* the "apipa" command (src/hci/commands/apipa_cmd.c) and its core         *)
(* (src/usr/apipa.c).                                                      *)
(*                                                                         *)
(* 32-bit unsigned values are kept as a pair <<hi, lo>> of 16-bit halves,  *)
(* so that the arithmetic of the code is done modulo 2^32.  An in_addr     *)
(* (network byte order) is the sequence of its 4 bytes as they lie in      *)
(* memory and on the wire.                                                 *)
(*                                                                         *)
(* Spec is the command as a whole; SpecGen is apipa_generate_addr alone,   *)
(* over many link-layer addresses; SpecRun is the command on one device    *)
(* with the probe requests of the run counted; SpecStore is                *)
(* apipa_store_settings alone, over more gateways and setting pairs.       *)
(***************************************************************************)
EXTENDS Integers, Sequences, FiniteSets, TLC

(***************************************************************************)
(* Bounds of the model                                                     *)
(***************************************************************************)
\* longest link-layer address tried by the address-generation specification
MaxLLLen == 6
\* most frames the inbound queue holds at once
MaxQueue == 2
\* most positional arguments (interface name, then settings) of a command
MaxPositional == 4

(***************************************************************************)
(* Program constants                                                       *)
(***************************************************************************)
\* a bug: one probe more
APIPA_PROBE_NUM_more == 3 + 1

APIPA_PROBE_NUM == 3
APIPA_MAX_ATTEMPTS == 10
APIPA_ADDR_MULTIPLIER == 65537

Half == 65536

\* uint32_t arithmetic on <<hi, lo>>
ToU32(n) == << (n \div Half) % Half, n % Half >>

Add32(a, b) ==
    LET lo == a[2] + b[2]
        hi == a[1] + b[1] + (lo \div Half)
    IN  << hi % Half, lo % Half >>

Sub32(a, b) ==
    LET lo == a[2] - b[2]
        borrow == IF lo < 0 THEN 1 ELSE 0
        hi == a[1] - b[1] - borrow
    IN  << (hi + Half) % Half, (lo + Half) % Half >>

\* a % m for a divisor m below 2^16 (m = <<0, d>>)
Mod32(a, m) ==
    LET d == m[2]
    IN  << 0, (((a[1] % d) * (Half % d)) + a[2]) % d >>

Le32(a, b) == a[1] < b[1] \/ (a[1] = b[1] /\ a[2] <= b[2])

\* ( 169UL << 24 ) | ( 254UL << 16 )
APIPA_BASE == << (169 * 256) + 254, 0 >>
\* 0xFFFF0000UL
APIPA_NETMASK == << 65535, 0 >>
\* APIPA_BASE | ( 1UL << 8 )
APIPA_MIN == << APIPA_BASE[1], 256 >>
\* APIPA_BASE | ( 254UL << 8 ) | 255UL
APIPA_MAX == << APIPA_BASE[1], (254 * 256) + 255 >>

\* bitwise operations on n-bit values
RECURSIVE BitXor(_, _, _)
BitXor(a, b, n) ==
    IF n = 0 THEN 0
    ELSE (((a % 2) + (b % 2)) % 2) + 2 * BitXor(a \div 2, b \div 2, n - 1)

RECURSIVE BitOr(_, _, _)
BitOr(a, b, n) ==
    IF n = 0 THEN 0
    ELSE (IF (a % 2) = 1 \/ (b % 2) = 1 THEN 1 ELSE 0)
         + 2 * BitOr(a \div 2, b \div 2, n - 1)

\* htonl(): the bytes of a host-order value, most significant first
Htonl(v) == << v[1] \div 256, v[1] % 256, v[2] \div 256, v[2] % 256 >>

ZeroAddr == << 0, 0, 0, 0 >>

(***************************************************************************)
(* The network device, as far as the code reads it.  ll_addr is the        *)
(* sequence of link-layer address bytes; ll_addr_ok says the pointer is    *)
(* non-NULL, ll_protocol says netdev->ll_protocol is non-NULL.             *)
(***************************************************************************)
LLAddrLen(nd) == IF nd.ll_protocol THEN Len(nd.ll_addr) ELSE 0

\* first loop: seed |= ll_addr[ll_addr_len - 1 - i] << (i * 8), i < 4
SeedFold1(nd) ==
    [i \in 0..3 |->
        IF nd.ll_addr_ok /\ i < LLAddrLen(nd)
        THEN BitOr(0, nd.ll_addr[LLAddrLen(nd) - i], 8)
        ELSE 0]

\* second loop: seed ^= ll_addr[i] << ((i % 4) * 8), while (i + 4) < 8
SeedFold2(nd) ==
    LET s == SeedFold1(nd)
    IN  [j \in 0..3 |->
            IF nd.ll_addr_ok /\ j < LLAddrLen(nd) /\ (j + 4) < 8
            THEN BitXor(s[j % 4], nd.ll_addr[j + 1], 8)
            ELSE s[j]]

\* the seed behind the first loop alone
SeedStep1(nd) ==
    LET s == SeedFold1(nd)
    IN  << s[2] + (256 * s[3]), s[0] + (256 * s[1]) >>

SeedOf(nd) ==
    LET s == SeedFold2(nd)
    IN  << s[2] + (256 * s[3]), s[0] + (256 * s[1]) >>

addr_range_from_base == Add32(Sub32(APIPA_MAX, APIPA_BASE), ToU32(1))

\* addr_range = ( APIPA_MAX - APIPA_MIN + 1 )
addr_range == Add32(Sub32(APIPA_MAX, APIPA_MIN), ToU32(1))

\* a bug: the attempt number is left out of the seed
apipa_generate_addr_same(nd, attempt) ==
    Add32(APIPA_MIN, Mod32(SeedOf(nd), addr_range))

apipa_generate_addr(nd, attempt) ==
    LET seed == Add32(SeedOf(nd), ToU32(attempt * APIPA_ADDR_MULTIPLIER))
        addr_offset == Mod32(seed, addr_range)
    IN  Add32(APIPA_MIN, addr_offset)

\* sizeof ( struct ethhdr ), sizeof ( struct arphdr ), sizeof ( struct in_addr )
SizeofEthhdr == 14
SizeofArphdr == 8
SizeofInAddr == 4

ETH_P_ARP == "ARP"
ETH_P_IP == "IP"

NoValue == "none"

\* status code 0
OK == "0"

\* no address yet
NoAddr == << >>

\* an option that was not given, and the text of one that was
NoText == [given |-> FALSE, dotted |-> << >>]
Text(fields) == [given |-> TRUE, dotted |-> fields]

\* a NULL struct in_addr pointer, and a pointer to an address
NullPtr == << >>
PtrTo(a) == << a >>

(***************************************************************************)
(* A received frame (io_buffer of the RX queue): its length, the           *)
(* h_protocol of its link-layer header, ar_hln and ar_pln of its ARP       *)
(* header, and spa, the 4 bytes that lie behind the ARP header and the     *)
(* sender hardware address.                                                *)
(***************************************************************************)
FrameConflicts(nd, f, addr) ==
    LET ll_hlen == nd.ll_header_len
        min_len == ll_hlen + SizeofArphdr + f.hln + f.pln
    IN  /\ ~(f.len < ll_hlen + SizeofEthhdr)
        /\ f.proto = ETH_P_ARP
        /\ ~(f.len < ll_hlen + SizeofArphdr)
        /\ f.hln = Len(nd.ll_addr)
        /\ f.pln = SizeofInAddr
        /\ ~(f.len < min_len)
        /\ f.spa = addr

\* a bug: the inspection reports no conflict, whatever is queued
apipa_check_arp_conflict_never(nd, q, addr) == FALSE

\* a bug: only the first queued frame is looked at
apipa_check_arp_conflict_first(nd, q, addr) ==
    Len(q) > 0 /\ FrameConflicts(nd, q[1], addr)

apipa_check_arp_conflict(nd, q, addr) ==
    \E k \in 1..Len(q) : FrameConflicts(nd, q[k], addr)

\* netdev_poll(), as the specification describes it: the queued frames are
\* processed and leave the queue
netdev_poll(q) == << >>

\* inet_aton(): a dotted-quad text, given as its decimal fields, is an
\* address if it has 4 fields of at most 255 each
inet_aton(text) ==
    IF Len(text.dotted) = 4 /\ \A k \in 1..4 : text.dotted[k] \in 0..255
    THEN [ok |-> TRUE, addr |-> [k \in 1..4 |-> text.dotted[k]]]
    ELSE [ok |-> FALSE, addr |-> ZeroAddr]

\* parse_autovivified_setting(): a setting name without white space parses
parse_autovivified_setting(name) ==
    IF name \in {"hostname", "user-class"} THEN OK ELSE "ENOTSUP"

\* a bug: the candidate of the first attempt is generated again
CandidateFor_first(nd, att) == Htonl(apipa_generate_addr(nd, 0))

\* a bug: after a failed probe the same candidate is generated once more
CandidateFor_again(nd, att) ==
    Htonl(apipa_generate_addr(nd, IF att % 2 = 1 THEN att - 1 ELSE att))

\* address.s_addr = htonl ( apipa_generate_addr ( netdev, attempts ) )
CandidateFor(nd, att) == Htonl(apipa_generate_addr(nd, att))

\* a bug: off by one, the candidate of the last attempt is used after all
AttemptsExceeded_late(att) == att > APIPA_MAX_ATTEMPTS

\* a bug: off by one the other way, the last attempt counts as one too many
AttemptsExceeded_early(att) == att >= APIPA_MAX_ATTEMPTS - 1

\* attempts >= APIPA_MAX_ATTEMPTS
AttemptsExceeded(att) == att >= APIPA_MAX_ATTEMPTS

\* a bug: the settings count is not checked
SettingsCountBad_never(num_settings) == FALSE

\* ( num_settings % 2 ) != 0
SettingsCountBad(num_settings) == (num_settings % 2) # 0

\* a bug: the link state is not looked at
LinkCheckFails_skipped(nd) == FALSE

\* ! netdev_link_ok ( netdev )
LinkCheckFails(nd) == ~nd.link_ok

\* a bug: the status of the announcement is not looked at
AnnounceFailed_ignored(r) == FALSE

\* rc = arp_tx_request ( ... ); if ( rc != 0 ) ... return rc
AnnounceFailed(r) == r # OK

\* a bug: the wait is made before every announcement
AnnounceWaits_always(ann) == TRUE

\* if ( announcement > 0 ) mdelay ( 2000 )
AnnounceWaits(ann) == ann > 0

VARIABLES
    g_netdev,       \* address generation alone: the device
    g_attempt,      \* ... the attempt number
    g_addr,         \* ... the value returned, or NoAddr before the call
    g_earlier,      \* ... the values returned for the attempts before
    pc,             \* where the command is
    cmd,            \* the command line
    netdev,         \* the network device
    rx_queue,       \* netdev->rx_queue
    gw,             \* apipa(): gw (NoValue for NULL)
    argv,           \* apipa(): argv[0 .. argc-1]
    gateway,        \* apipa(): gateway
    attempts,       \* apipa(): attempts
    address,        \* apipa(): address
    probe,          \* apipa_probe_address(): probe
    conflict,       \* apipa_probe_address(): what the inspection returned
    announcement,   \* apipa(): announcement
    si,             \* apipa_store_settings(): i
    rc,             \* the status code last returned
    exit,           \* the return statement the command ended with
    core_entered,   \* apipa() was called
    gen_calls,      \* calls of apipa_generate_addr
    tx_any,         \* arp_tx_request was called
    probe_log,      \* the arp_tx_request calls of the current probe
    insp_match,     \* an inspection of that probe met a well-formed match
    queued_match,   \* a frame with the candidate as sender was queued
    probe_trace,    \* what the current probe did so far, call by call
    missed_match,   \* a conflicting frame of the current candidate was
                    \* drained before a later probe without being inspected
    counting,       \* the probe requests of the run are counted
    n_probe_tx,     \* ... their number
    verdicts,       \* the kinds of verdict candidates ended with so far
    clear_at,       \* the attempt whose probe returned 0
    installs,       \* the ipv4_add_miniroute calls
    routes,         \* the routes installed
    ann_log,        \* delays and arp_tx_request calls of the announcement
    stores          \* the parse and storef_setting calls

gvars == << g_netdev, g_attempt, g_addr, g_earlier >>

cvars == << pc, cmd, netdev, rx_queue, gw, argv, gateway, attempts, address,
            probe, conflict, announcement, si, rc, exit, core_entered,
            gen_calls, tx_any, probe_log, insp_match, queued_match,
            probe_trace, missed_match, counting, n_probe_tx, verdicts, clear_at, installs, routes, ann_log,
            stores >>

vars == << gvars, cvars >>

\* the device of the specification's scenario, 02:00:00:00:00:01, and one
\* whose seed wraps at attempt 1
LLAddrs == { << 2, 0, 0, 0, 0, 1 >>, << 0, 0, 255, 0, 255, 254 >> }

Device(ll, open, link) ==
    [ll_protocol |-> TRUE, ll_addr_ok |-> TRUE, ll_addr |-> ll,
     ll_header_len |-> 14, open |-> open, link_ok |-> link,
     link_rc |-> IF link THEN OK ELSE "ENOTCONN"]

\* the part of the state a command starts from
FreshRun ==
    /\ pc = "exec"
    /\ rx_queue = << >>
    /\ gw = NullPtr
    /\ argv = << >>
    /\ gateway = ZeroAddr
    /\ attempts = 0
    /\ address = ZeroAddr
    /\ probe = 0
    /\ conflict = FALSE
    /\ announcement = 0
    /\ si = 0
    /\ rc = OK
    /\ exit = NoValue
    /\ core_entered = FALSE
    /\ gen_calls = 0
    /\ tx_any = FALSE
    /\ probe_log = << >>
    /\ insp_match = FALSE
    /\ queued_match = FALSE
    /\ probe_trace = << >>
    /\ missed_match = FALSE
    /\ n_probe_tx = 0
    /\ verdicts = { }
    /\ clear_at = -1
    /\ installs = << >>
    /\ routes = << >>
    /\ ann_log = << >>
    /\ stores = << >>

IdleCommand ==
    /\ FreshRun
    /\ counting = FALSE
    /\ cmd = [opts_ok |-> TRUE, gateway |-> NoText, positional |-> << >>,
              have_default |-> TRUE]
    /\ netdev = Device(<< 2, 0, 0, 0, 0, 1 >>, FALSE, TRUE)

(***************************************************************************)
(* Address generation alone, over many link-layer addresses                *)
(***************************************************************************)
GenBytes == {0, 1, 254, 255}

GenLLAddrs == UNION { [1..n -> GenBytes] : n \in 0..MaxLLLen }

\* link-layer addresses of 8 bytes and more
LongLLAddrs ==
    { << 1, 0, 0, 0, 0, 0, 0, 0 >>,
      << 0, 0, 0, 0, 254, 1, 0, 255 >>,
      << 2, 0, 0, 0, 0, 1, 255, 254, 1 >> }

GenDevices ==
    { [ll_protocol |-> TRUE, ll_addr_ok |-> TRUE, ll_addr |-> a] :
        a \in GenLLAddrs \cup LongLLAddrs }
    \cup { [ll_protocol |-> FALSE, ll_addr_ok |-> TRUE, ll_addr |-> << 1, 254 >>],
           [ll_protocol |-> TRUE, ll_addr_ok |-> FALSE, ll_addr |-> << >>] }

GenInit ==
    /\ g_netdev \in GenDevices
    /\ g_attempt = 0
    /\ g_addr = NoAddr
    /\ g_earlier = << >>
    /\ IdleCommand

GenCall ==
    /\ g_addr = NoAddr
    /\ g_addr' = apipa_generate_addr(g_netdev, g_attempt)
    /\ UNCHANGED << g_netdev, g_attempt, g_earlier, cvars >>

GenNextAttempt ==
    /\ g_addr # NoAddr
    /\ g_attempt + 1 < APIPA_MAX_ATTEMPTS
    /\ g_attempt' = g_attempt + 1
    /\ g_addr' = NoAddr
    /\ g_earlier' = Append(g_earlier, g_addr)
    /\ UNCHANGED << g_netdev, cvars >>

GenNext == GenCall \/ GenNextAttempt

SpecGen == GenInit /\ [][GenNext]_vars

\* seed + attempt * 65537 exceeds 2^32 - 1 and wraps
GenWraps ==
    LET s == SeedOf(g_netdev)
        t == ToU32(g_attempt * APIPA_ADDR_MULTIPLIER)
    IN  ~Le32(s, Add32(s, t))

\* C1: every value apipa_generate_addr returns, for any link-layer address
\* and any attempt 0..9, lies in APIPA_MIN..APIPA_MAX (169.254.1.0 ..
\* 169.254.254.255), also when the seed plus attempt * 65537 wraps.
C1_RangeInvariant ==
    g_addr # NoAddr =>
        /\ Le32(<< 43518, 256 >>, g_addr)
        /\ Le32(g_addr, << 43518, 65279 >>)
        /\ Htonl(g_addr)[1] = 169
        /\ Htonl(g_addr)[2] = 254
        /\ Htonl(g_addr)[3] \in 1..254

\* C1 witness: a value was returned for a link-layer address longer than 4
\* bytes at an attempt where the sum wrapped modulo 2^32
C1_Witness ==
    /\ g_addr # NoAddr
    /\ Len(g_netdev.ll_addr) > 4
    /\ g_attempt > 0
    /\ GenWraps

(***************************************************************************)
(* The "apipa" command                                                     *)
(***************************************************************************)
GatewayTexts == { NoText, Text(<< 10, 0, 0, 1 >>), Text(<< 10, 0, 0, 256 >>) }

IfNames == { "net0", "net9" }
SettingNames == { "hostname", "bad name" }
SettingValues == { "pxe" }

\* the positional arguments: the interface name, then names and values
Positionals ==
    UNION { { p \in [1..n -> IfNames \cup SettingNames \cup SettingValues] :
                \A k \in 1..n :
                    p[k] \in (IF k = 1 THEN IfNames
                              ELSE IF k % 2 = 0 THEN SettingNames
                              ELSE SettingValues) } :
            n \in 0..MaxPositional }

Commands ==
    { c \in [opts_ok : BOOLEAN, gateway : GatewayTexts,
             positional : Positionals, have_default : BOOLEAN] :
        /\ c.positional # << >> => c.have_default
        /\ ~c.opts_ok => (c.gateway = NoText /\ c.positional = << >>
                          /\ c.have_default) }

Devices ==
    { Device(ll, o, l) : ll \in LLAddrs, o \in BOOLEAN, l \in BOOLEAN }
    \cup { [Device(<< 2, 0, 0, 0, 0, 1 >>, TRUE, TRUE)
                EXCEPT !.ll_protocol = FALSE],
           [Device(<< 2, 0, 0, 0, 0, 1 >>, TRUE, TRUE)
                EXCEPT !.ll_addr_ok = FALSE] }

Init ==
    /\ FreshRun
    /\ counting = FALSE
    /\ cmd \in Commands
    /\ netdev \in Devices
    /\ g_netdev = Device(<< >>, FALSE, FALSE)
    /\ g_attempt = 0
    /\ g_addr = NoAddr
    /\ g_earlier = << >>

\* a bug: what inet_aton returns is not looked at
ExecOutcome_gateway_unchecked(c) ==
    LET have_if == Len(c.positional) > 0
        num_settings == IF have_if THEN Len(c.positional) - 1 ELSE 0
    IN  IF ~c.opts_ok
        THEN [call |-> FALSE, rc |-> "EINVAL", exit |-> "OptionsError"]
        ELSE IF SettingsCountBad(num_settings)
        THEN [call |-> FALSE, rc |-> "EINVAL", exit |-> "OddSettings"]
        ELSE IF have_if /\ c.positional[1] # "net0"
        THEN [call |-> FALSE, rc |-> "ENODEV", exit |-> "NoSuchDevice"]
        ELSE IF ~have_if /\ ~c.have_default
        THEN [call |-> FALSE, rc |-> "ENODEV", exit |-> "NoDefaultDevice"]
        ELSE [call |-> TRUE,
              gw |-> IF c.gateway.given
                     THEN PtrTo(inet_aton(c.gateway).addr)
                     ELSE NullPtr,
              argv |-> IF have_if
                       THEN SubSeq(c.positional, 2, Len(c.positional))
                       ELSE << >>]

\* what apipa_exec does with a command line: the status it returns with, or
\* the call of apipa() it ends in
ExecOutcome(c) ==
    LET have_if == Len(c.positional) > 0
        num_settings == IF have_if THEN Len(c.positional) - 1 ELSE 0
    IN  IF ~c.opts_ok
        THEN [call |-> FALSE, rc |-> "EINVAL", exit |-> "OptionsError"]
        ELSE IF c.gateway.given /\ ~inet_aton(c.gateway).ok
        THEN [call |-> FALSE, rc |-> "EINVAL", exit |-> "BadGateway"]
        ELSE IF SettingsCountBad(num_settings)
        THEN [call |-> FALSE, rc |-> "EINVAL", exit |-> "OddSettings"]
        ELSE IF have_if /\ c.positional[1] # "net0"
        THEN [call |-> FALSE, rc |-> "ENODEV", exit |-> "NoSuchDevice"]
        ELSE IF ~have_if /\ ~c.have_default
        THEN [call |-> FALSE, rc |-> "ENODEV", exit |-> "NoDefaultDevice"]
        ELSE [call |-> TRUE,
              gw |-> IF c.gateway.given
                     THEN PtrTo(inet_aton(c.gateway).addr)
                     ELSE NullPtr,
              argv |-> IF have_if
                       THEN SubSeq(c.positional, 2, Len(c.positional))
                       ELSE << >>]

probe_vars == << probe, conflict, probe_log, insp_match, queued_match,
                 probe_trace, missed_match, n_probe_tx >>
loop_vars == << attempts, address, gen_calls, verdicts, clear_at >>
claim_vars == << installs, routes, ann_log, announcement, stores, si >>
arg_vars == << cmd, gw, argv, gateway, counting >>

apipa_exec ==
    /\ pc = "exec"
    /\ LET o == ExecOutcome(cmd)
       IN  IF o.call
           THEN /\ pc' = "apipa"
                /\ core_entered' = TRUE
                /\ gw' = o.gw
                /\ argv' = o.argv
                /\ UNCHANGED << rc, exit >>
           ELSE /\ pc' = "done"
                /\ rc' = o.rc
                /\ exit' = o.exit
                /\ UNCHANGED << core_entered, gw, argv >>
    /\ UNCHANGED << cmd, gateway, counting, netdev, rx_queue, tx_any >>
    /\ UNCHANGED << probe_vars, loop_vars, claim_vars >>
    /\ UNCHANGED gvars

(***************************************************************************)
(* apipa(): the checks made before any address is generated                *)
(***************************************************************************)
PrecheckNoLL ==
    /\ pc = "apipa"
    /\ ~netdev.ll_protocol \/ ~netdev.ll_addr_ok
    /\ rc' = "ENODEV"
    /\ exit' = "DeviceUnready"
    /\ pc' = "done"
    /\ UNCHANGED << netdev, rx_queue, tx_any, core_entered >>
    /\ UNCHANGED << arg_vars, probe_vars, loop_vars, claim_vars >>
    /\ UNCHANGED gvars

PrecheckOpenFail ==
    /\ pc = "apipa"
    /\ netdev.ll_protocol /\ netdev.ll_addr_ok
    /\ ~netdev.open
    /\ rc' = "EIO"
    /\ exit' = "OpenFailed"
    /\ pc' = "done"
    /\ UNCHANGED << netdev, rx_queue, tx_any, core_entered >>
    /\ UNCHANGED << arg_vars, probe_vars, loop_vars, claim_vars >>
    /\ UNCHANGED gvars

PrecheckLinkDown ==
    /\ pc = "apipa"
    /\ netdev.ll_protocol /\ netdev.ll_addr_ok
    /\ LinkCheckFails(netdev)
    /\ netdev' = [netdev EXCEPT !.open = TRUE]
    /\ rc' = netdev.link_rc
    /\ exit' = "LinkDown"
    /\ pc' = "done"
    /\ UNCHANGED << rx_queue, tx_any, core_entered >>
    /\ UNCHANGED << arg_vars, probe_vars, loop_vars, claim_vars >>
    /\ UNCHANGED gvars

PrecheckOk ==
    /\ pc = "apipa"
    /\ netdev.ll_protocol /\ netdev.ll_addr_ok
    /\ ~LinkCheckFails(netdev)
    /\ netdev' = [netdev EXCEPT !.open = TRUE]
    /\ gateway' = IF gw # NullPtr THEN gw[1] ELSE ZeroAddr
    /\ pc' = "generate"
    /\ UNCHANGED << cmd, gw, argv, counting, rx_queue, tx_any, core_entered,
                    rc, exit >>
    /\ UNCHANGED << probe_vars, loop_vars, claim_vars >>
    /\ UNCHANGED gvars

(***************************************************************************)
(* The inbound queue: frames arrive while the code waits                   *)
(***************************************************************************)
\* the waits of the code: the random wait before the first attempt, the
\* 200 ms after a probe, the 1 to 2 s between two probes
Waiting ==
    \/ pc = "generate" /\ attempts = 0
    \/ pc \in { "probe_wait", "probe_delay" }

Candidate == IF pc = "generate" THEN CandidateFor(netdev, attempts) ELSE address

OtherAddr == << 169, 254, 0, 1 >>

ArpFrame(spa) ==
    [len |-> 42, proto |-> ETH_P_ARP, hln |-> 6, pln |-> 4, spa |-> spa]

Frames(c) ==
    { ArpFrame(c), ArpFrame(OtherAddr),
      [ArpFrame(c) EXCEPT !.proto = ETH_P_IP],
      [ArpFrame(c) EXCEPT !.hln = 8],
      [ArpFrame(c) EXCEPT !.len = 30] }

\* a complete ARP frame of this link: Ethernet header, ARP header, and two
\* hardware and two IPv4 addresses
WellFormedArp(f) ==
    /\ f.proto = ETH_P_ARP
    /\ f.hln = Len(netdev.ll_addr)
    /\ f.pln = 4
    /\ f.len >= netdev.ll_header_len + 8 + (2 * f.hln) + (2 * f.pln)

Receive ==
    /\ Waiting
    /\ Len(rx_queue) < MaxQueue
    /\ \E f \in Frames(Candidate) :
        /\ rx_queue' = Append(rx_queue, f)
        /\ queued_match' = (queued_match \/ (pc # "generate" /\ f.spa = address))
    /\ UNCHANGED << pc, netdev, tx_any, core_entered, rc, exit >>
    /\ UNCHANGED << probe, conflict, probe_log, insp_match >>
    /\ UNCHANGED << probe_trace, missed_match, n_probe_tx >>
    /\ UNCHANGED << arg_vars, loop_vars, claim_vars >>
    /\ UNCHANGED gvars

(***************************************************************************)
(* apipa(): the attempt loop, and apipa_probe_address()                    *)
(***************************************************************************)
ApipaGenerate ==
    /\ pc = "generate"
    /\ address' = CandidateFor(netdev, attempts)
    /\ gen_calls' = gen_calls + 1
    /\ probe' = 0
    /\ conflict' = FALSE
    /\ probe_log' = << >>
    /\ insp_match' = FALSE
    /\ queued_match' = (\E k \in 1..Len(rx_queue) : rx_queue[k].spa = address')
    /\ probe_trace' = << >>
    /\ missed_match' = FALSE
    /\ pc' = "probe_poll"
    /\ UNCHANGED << netdev, rx_queue, tx_any, core_entered, rc, exit >>
    /\ UNCHANGED << attempts, verdicts, clear_at, n_probe_tx >>
    /\ UNCHANGED << arg_vars, claim_vars >>
    /\ UNCHANGED gvars

ProbePoll ==
    /\ pc = "probe_poll"
    /\ probe < APIPA_PROBE_NUM
    /\ rx_queue' = netdev_poll(rx_queue)
    /\ probe_trace' = Append(probe_trace, "poll")
    /\ missed_match' = (missed_match \/
                        (probe > 0 /\
                         apipa_check_arp_conflict(netdev, rx_queue, address)))
    /\ pc' = "probe_tx"
    /\ UNCHANGED << netdev, tx_any, core_entered, rc, exit >>
    /\ UNCHANGED << probe, conflict, probe_log, insp_match, queued_match,
                    n_probe_tx >>
    /\ UNCHANGED << arg_vars, loop_vars, claim_vars >>
    /\ UNCHANGED gvars

\* a bug: the probe is sent from the candidate, as an announcement is
ProbeFrame_announce(r) == [tpa |-> address, spa |-> address, rc |-> r]

\* arp_tx_request ( netdev, &ipv4_protocol, &address, &zero_addr )
ProbeFrame(r) == [tpa |-> address, spa |-> ZeroAddr, rc |-> r]

ProbeTxOk ==
    /\ pc = "probe_tx"
    /\ probe_log' = Append(probe_log, ProbeFrame(OK))
    /\ probe_trace' = Append(probe_trace, "tx")
    /\ n_probe_tx' = IF counting THEN n_probe_tx + 1 ELSE n_probe_tx
    /\ tx_any' = TRUE
    /\ pc' = "probe_wait"
    /\ UNCHANGED << netdev, rx_queue, core_entered, rc, exit >>
    /\ UNCHANGED << probe, conflict, insp_match, queued_match, missed_match >>
    /\ UNCHANGED << arg_vars, loop_vars, claim_vars >>
    /\ UNCHANGED gvars

ProbeTxFail ==
    /\ pc = "probe_tx"
    /\ probe_log' = Append(probe_log, ProbeFrame("ENOBUFS"))
    /\ probe_trace' = Append(probe_trace, "tx")
    /\ n_probe_tx' = IF counting THEN n_probe_tx + 1 ELSE n_probe_tx
    /\ tx_any' = TRUE
    /\ rc' = "ENOBUFS"
    /\ pc' = "probe_ret"
    /\ UNCHANGED << netdev, rx_queue, core_entered, exit >>
    /\ UNCHANGED << probe, conflict, insp_match, queued_match, missed_match >>
    /\ UNCHANGED << arg_vars, loop_vars, claim_vars >>
    /\ UNCHANGED gvars

\* a bug: the frames inspected are taken off the queue
ProbeCheck_dequeue ==
    /\ pc = "probe_wait"
    /\ conflict' = apipa_check_arp_conflict(netdev, rx_queue, address)
    /\ insp_match' = (insp_match \/
                      \E k \in 1..Len(rx_queue) :
                          WellFormedArp(rx_queue[k])
                          /\ rx_queue[k].spa = address)
    /\ rx_queue' = << >>
    /\ probe_trace' = probe_trace \o << "mdelay", "check" >>
    /\ pc' = "probe_drain"
    /\ UNCHANGED << netdev, tx_any, core_entered, rc, exit >>
    /\ UNCHANGED << probe, probe_log, queued_match, missed_match, n_probe_tx >>
    /\ UNCHANGED << arg_vars, loop_vars, claim_vars >>
    /\ UNCHANGED gvars

\* the 200 ms wait is over: the queue is inspected
ProbeCheck ==
    /\ pc = "probe_wait"
    /\ conflict' = apipa_check_arp_conflict(netdev, rx_queue, address)
    /\ insp_match' = (insp_match \/
                      \E k \in 1..Len(rx_queue) :
                          WellFormedArp(rx_queue[k])
                          /\ rx_queue[k].spa = address)
    /\ probe_trace' = probe_trace \o << "mdelay", "check" >>
    /\ pc' = "probe_drain"
    /\ UNCHANGED << netdev, rx_queue, tx_any, core_entered, rc, exit >>
    /\ UNCHANGED << probe, probe_log, queued_match, missed_match, n_probe_tx >>
    /\ UNCHANGED << arg_vars, loop_vars, claim_vars >>
    /\ UNCHANGED gvars

\* a bug: at a conflict the probe returns without the poll
ProbeDrainConflict_unpolled ==
    /\ pc = "probe_drain"
    /\ conflict
    /\ rc' = "EADDRINUSE"
    /\ pc' = "probe_ret"
    /\ UNCHANGED << netdev, rx_queue, tx_any, core_entered, exit >>
    /\ UNCHANGED << arg_vars, probe_vars, loop_vars, claim_vars >>
    /\ UNCHANGED gvars

ProbeDrainConflict ==
    /\ pc = "probe_drain"
    /\ conflict
    /\ rx_queue' = netdev_poll(rx_queue)
    /\ probe_trace' = Append(probe_trace, "poll")
    /\ rc' = "EADDRINUSE"
    /\ pc' = "probe_ret"
    /\ UNCHANGED << netdev, tx_any, core_entered, exit >>
    /\ UNCHANGED << probe, conflict, probe_log, insp_match, queued_match,
                    missed_match, n_probe_tx >>
    /\ UNCHANGED << arg_vars, loop_vars, claim_vars >>
    /\ UNCHANGED gvars

ProbeDrainNext ==
    /\ pc = "probe_drain"
    /\ ~conflict
    /\ probe < APIPA_PROBE_NUM - 1
    /\ rx_queue' = netdev_poll(rx_queue)
    /\ probe_trace' = Append(probe_trace, "poll")
    /\ pc' = "probe_delay"
    /\ UNCHANGED << netdev, tx_any, core_entered, rc, exit >>
    /\ UNCHANGED << probe, conflict, probe_log, insp_match, queued_match,
                    missed_match, n_probe_tx >>
    /\ UNCHANGED << arg_vars, loop_vars, claim_vars >>
    /\ UNCHANGED gvars

ProbeDrainLast ==
    /\ pc = "probe_drain"
    /\ ~conflict
    /\ ~(probe < APIPA_PROBE_NUM - 1)
    /\ rx_queue' = netdev_poll(rx_queue)
    /\ probe_trace' = Append(probe_trace, "poll")
    /\ probe' = probe + 1
    /\ rc' = OK
    /\ pc' = "probe_ret"
    /\ UNCHANGED << netdev, tx_any, core_entered, exit >>
    /\ UNCHANGED << conflict, probe_log, insp_match, queued_match,
                    missed_match, n_probe_tx >>
    /\ UNCHANGED << arg_vars, loop_vars, claim_vars >>
    /\ UNCHANGED gvars

\* the 1 to 2 s between two probes are over
ProbeDelay ==
    /\ pc = "probe_delay"
    /\ probe' = probe + 1
    /\ probe_trace' = Append(probe_trace, "delay")
    /\ pc' = "probe_poll"
    /\ UNCHANGED << netdev, rx_queue, tx_any, core_entered, rc, exit >>
    /\ UNCHANGED << conflict, probe_log, insp_match, queued_match,
                    missed_match, n_probe_tx >>
    /\ UNCHANGED << arg_vars, loop_vars, claim_vars >>
    /\ UNCHANGED gvars

\* the loop is left, by break or by its bound
AfterLoop(att) ==
    IF AttemptsExceeded(att)
    THEN /\ rc' = "EADDRINUSE"
         /\ exit' = "Exhausted"
         /\ pc' = "done"
    ELSE /\ pc' = "install"
         /\ UNCHANGED << rc, exit >>

VerdictClear ==
    /\ pc = "probe_ret"
    /\ rc = OK
    /\ clear_at' = attempts
    /\ verdicts' = verdicts \cup { "Clear" }
    /\ AfterLoop(attempts)
    /\ UNCHANGED << netdev, rx_queue, tx_any, core_entered >>
    /\ UNCHANGED << attempts, address, gen_calls >>
    /\ UNCHANGED << arg_vars, probe_vars, claim_vars >>
    /\ UNCHANGED gvars

VerdictRetry ==
    /\ pc = "probe_ret"
    /\ rc # OK
    /\ verdicts' = verdicts \cup { IF rc = "EADDRINUSE" THEN "Conflict"
                                   ELSE "TransmitFailed" }
    /\ attempts' = attempts + 1
    /\ IF attempts' < APIPA_MAX_ATTEMPTS
       THEN /\ pc' = "generate"
            /\ UNCHANGED << rc, exit >>
       ELSE AfterLoop(attempts')
    /\ UNCHANGED << netdev, rx_queue, tx_any, core_entered >>
    /\ UNCHANGED << address, gen_calls, clear_at >>
    /\ UNCHANGED << arg_vars, probe_vars, claim_vars >>
    /\ UNCHANGED gvars

(***************************************************************************)
(* apipa(): the route, the announcements, the settings                     *)
(***************************************************************************)
\* a bug: the status of ipv4_add_miniroute is not looked at
InstallFailed_ignored(r) == FALSE

\* ( rc = ipv4_add_miniroute ( ... ) ) != 0
InstallFailed(r) == r # OK

MiniRoute ==
    [address |-> address, network |-> Htonl(APIPA_BASE),
     netmask |-> Htonl(APIPA_NETMASK), gateway |-> gateway]

ApipaInstall ==
    /\ pc = "install"
    /\ \E r \in { OK, "ENOMEM" } :
        /\ installs' = Append(installs, [route |-> MiniRoute, rc |-> r])
        /\ routes' = IF r = OK THEN Append(routes, MiniRoute) ELSE routes
        /\ IF InstallFailed(r)
           THEN /\ rc' = r
                /\ exit' = "InstallFailed"
                /\ pc' = "done"
           ELSE /\ rc' = r
                /\ pc' = "announce"
                /\ UNCHANGED exit
    /\ UNCHANGED << netdev, rx_queue, tx_any, core_entered >>
    /\ UNCHANGED << ann_log, announcement, stores, si >>
    /\ UNCHANGED << arg_vars, probe_vars, loop_vars >>
    /\ UNCHANGED gvars

\* one turn of the announcement loop:
\* arp_tx_request ( netdev, &ipv4_protocol, &address, &address )
ApipaAnnounce ==
    /\ pc = "announce"
    /\ announcement < 2
    /\ \E r \in { OK, "ENOBUFS" } :
        /\ ann_log' = (IF AnnounceWaits(announcement)
                       THEN Append(ann_log, [kind |-> "mdelay", ms |-> 2000])
                       ELSE ann_log)
                      \o << [kind |-> "tx", tpa |-> address, spa |-> address,
                             rc |-> r] >>
        /\ rc' = r
        /\ IF AnnounceFailed(r)
           THEN /\ exit' = "AnnounceFailed"
                /\ pc' = "done"
                /\ UNCHANGED announcement
           ELSE /\ announcement' = announcement + 1
                /\ pc' = IF announcement' < 2 THEN "announce" ELSE "store_ip"
                /\ UNCHANGED exit
    /\ tx_any' = TRUE
    /\ UNCHANGED << netdev, rx_queue, core_entered >>
    /\ UNCHANGED << installs, routes, stores, si >>
    /\ UNCHANGED << arg_vars, probe_vars, loop_vars >>
    /\ UNCHANGED gvars

\* inet_ntoa(): the dotted-quad text of an address
inet_ntoa(a) == [dotted |-> << a[1], a[2], a[3], a[4] >>]

\* a bug: the status of storef_setting is not looked at
StoreFailed_ignored(r) == FALSE

\* ( rc = storef_setting ( ... ) ) != 0
StoreFailed(r) == r # OK

\* one storef_setting call of apipa_store_settings, and where it goes on
StoreStep(at, setting, value, next) ==
    /\ pc = at
    /\ \E r \in { OK, "ENOSPC" } :
        /\ stores' = Append(stores, [op |-> "store", setting |-> setting,
                                     value |-> value, rc |-> r])
        /\ rc' = r
        /\ IF StoreFailed(r)
           THEN /\ exit' = "PersistFailed"
                /\ pc' = "done"
           ELSE /\ pc' = next
                /\ UNCHANGED exit
    /\ UNCHANGED << netdev, rx_queue, tx_any, core_entered >>
    /\ UNCHANGED << installs, routes, ann_log, announcement >>
    /\ UNCHANGED << arg_vars, probe_vars, loop_vars >>

StoreIp ==
    /\ StoreStep("store_ip", "ip", inet_ntoa(address), "store_netmask")
    /\ UNCHANGED si
    /\ UNCHANGED gvars

StoreNetmask ==
    /\ StoreStep("store_netmask", "netmask", inet_ntoa(Htonl(APIPA_NETMASK)),
                 IF gateway # ZeroAddr THEN "store_gateway" ELSE "store_pairs")
    /\ UNCHANGED si
    /\ UNCHANGED gvars

StoreGateway ==
    /\ StoreStep("store_gateway", "gateway", inet_ntoa(gateway), "store_pairs")
    /\ UNCHANGED si
    /\ UNCHANGED gvars

\* parse_autovivified_setting ( argv[i], &setting ) fails
StorePairBadName ==
    /\ pc = "store_pairs"
    /\ si < Len(argv)
    /\ parse_autovivified_setting(argv[si + 1]) # OK
    /\ stores' = Append(stores, [op |-> "parse", setting |-> argv[si + 1],
                                 value |-> "",
                                 rc |-> parse_autovivified_setting(argv[si + 1])])
    /\ rc' = parse_autovivified_setting(argv[si + 1])
    /\ exit' = "PersistFailed"
    /\ pc' = "done"
    /\ UNCHANGED << netdev, rx_queue, tx_any, core_entered, si >>
    /\ UNCHANGED << installs, routes, ann_log, announcement >>
    /\ UNCHANGED << arg_vars, probe_vars, loop_vars >>
    /\ UNCHANGED gvars

StorePair ==
    /\ si < Len(argv)
    /\ parse_autovivified_setting(argv[si + 1]) = OK
    /\ StoreStep("store_pairs", argv[si + 1], argv[si + 2], "store_pairs")
    /\ si' = IF StoreFailed(rc') THEN si ELSE si + 2
    /\ UNCHANGED gvars

StoreDone ==
    /\ pc = "store_pairs"
    /\ ~(si < Len(argv))
    /\ rc' = OK
    /\ exit' = "Success"
    /\ pc' = "done"
    /\ UNCHANGED << netdev, rx_queue, tx_any, core_entered >>
    /\ UNCHANGED << arg_vars, probe_vars, loop_vars, claim_vars >>
    /\ UNCHANGED gvars

Next ==
    \/ apipa_exec
    \/ PrecheckNoLL
    \/ PrecheckOpenFail
    \/ PrecheckLinkDown
    \/ PrecheckOk
    \/ Receive
    \/ ApipaGenerate
    \/ ProbePoll
    \/ ProbeTxOk
    \/ ProbeTxFail
    \/ ProbeCheck
    \/ ProbeDrainConflict
    \/ ProbeDrainNext
    \/ ProbeDrainLast
    \/ ProbeDelay
    \/ VerdictClear
    \/ VerdictRetry
    \/ ApipaInstall
    \/ ApipaAnnounce
    \/ StoreIp
    \/ StoreNetmask
    \/ StoreGateway
    \/ StorePairBadName
    \/ StorePair
    \/ StoreDone

Spec == Init /\ [][Next]_vars

(***************************************************************************)
(* The command on one device, with its probe requests counted              *)
(***************************************************************************)
\* a gateway and one pair, whose name parses or does not
RunCommands ==
    { c \in Commands :
        /\ c.opts_ok
        /\ c.gateway = Text(<< 10, 0, 0, 1 >>)
        /\ Len(c.positional) = 3
        /\ c.positional[1] = "net0" }

RunDevices == { d \in Devices : d.ll_addr = << 2, 0, 0, 0, 0, 1 >> }

RunInit ==
    /\ FreshRun
    /\ counting = TRUE
    /\ cmd \in RunCommands
    /\ netdev \in RunDevices
    /\ g_netdev = Device(<< >>, FALSE, FALSE)
    /\ g_attempt = 0
    /\ g_addr = NoAddr
    /\ g_earlier = << >>

SpecRun == RunInit /\ [][Next]_vars

(***************************************************************************)
(* apipa_store_settings() alone, over more gateways and setting pairs      *)
(***************************************************************************)
\* most (name, value) pairs given to apipa_store_settings
MaxPairs == 2

StoreGateways == { NoText, Text(<< 0, 0, 0, 0 >>), Text(<< 10, 0, 0, 1 >>) }

StoreNames == { "hostname", "user-class", "bad name" }

\* argv: names and values in turn
StoreArgs ==
    UNION { { a \in [1..(2 * n) -> StoreNames \cup SettingValues] :
                \A k \in 1..(2 * n) :
                    a[k] \in (IF k % 2 = 1 THEN StoreNames
                              ELSE SettingValues) } :
            n \in 0..MaxPairs }

StoreCommands ==
    { [opts_ok |-> TRUE, gateway |-> g, positional |-> << "net0" >> \o a,
       have_default |-> TRUE] : g \in StoreGateways, a \in StoreArgs }

\* the state in which apipa() calls apipa_store_settings: the candidate of
\* attempt 0 or 1 was clear, its route is installed and both announcements
\* were sent
StoreInit ==
    /\ cmd \in StoreCommands
    /\ netdev \in { Device(ll, TRUE, TRUE) : ll \in LLAddrs }
    /\ attempts \in 0..1
    /\ pc = "store_ip"
    /\ core_entered = TRUE
    /\ gw = ExecOutcome(cmd).gw
    /\ argv = ExecOutcome(cmd).argv
    /\ gateway = IF gw # NullPtr THEN gw[1] ELSE ZeroAddr
    /\ address = CandidateFor(netdev, attempts)
    /\ gen_calls = attempts + 1
    /\ clear_at = attempts
    /\ verdicts = IF attempts = 0 THEN { "Clear" } ELSE { "Conflict", "Clear" }
    /\ rx_queue = << >>
    /\ probe = APIPA_PROBE_NUM
    /\ conflict = FALSE
    /\ probe_log = [k \in 1..APIPA_PROBE_NUM |-> ProbeFrame(OK)]
    /\ insp_match = FALSE
    /\ queued_match = FALSE
    /\ probe_trace = << "poll", "tx", "mdelay", "check", "poll", "delay",
                        "poll", "tx", "mdelay", "check", "poll", "delay",
                        "poll", "tx", "mdelay", "check", "poll" >>
    /\ missed_match = FALSE
    /\ counting = FALSE
    /\ n_probe_tx = 0
    /\ tx_any = TRUE
    /\ installs = << [route |-> MiniRoute, rc |-> OK] >>
    /\ routes = << MiniRoute >>
    /\ announcement = 2
    /\ ann_log = << [kind |-> "tx", tpa |-> address, spa |-> address,
                     rc |-> OK],
                    [kind |-> "mdelay", ms |-> 2000],
                    [kind |-> "tx", tpa |-> address, spa |-> address,
                     rc |-> OK] >>
    /\ stores = << >>
    /\ si = 0
    /\ rc = OK
    /\ exit = NoValue
    /\ g_netdev = Device(<< >>, FALSE, FALSE)
    /\ g_attempt = 0
    /\ g_addr = NoAddr
    /\ g_earlier = << >>

StoreNext ==
    \/ StoreIp
    \/ StoreNetmask
    \/ StoreGateway
    \/ StorePairBadName
    \/ StorePair
    \/ StoreDone

SpecStore == StoreInit /\ [][StoreNext]_vars

(***************************************************************************)
(* Properties                                                              *)
(***************************************************************************)
ProbePcs == { "probe_poll", "probe_tx", "probe_wait", "probe_drain",
              "probe_delay", "probe_ret" }

StorePcs == { "store_ip", "store_netmask", "store_gateway", "store_pairs" }

AllProbesSent ==
    /\ Len(probe_log) = 3
    /\ \A k \in 1..Len(probe_log) : probe_log[k].rc = OK

\* C2: when apipa_probe_address returns, it returns -EADDRINUSE if one of
\* its inspections met a queued well-formed ARP frame whose sender protocol
\* address is the candidate (and it stops at that inspection); if every
\* transmission succeeded and no frame with the candidate as sender was ever
\* queued it returns 0; and it returns 0 only after 3 probes were sent.
C2_ProbeVerdict ==
    /\ (pc \in ProbePcs /\ insp_match) =>
            (pc \in { "probe_drain", "probe_ret" } /\ conflict)
    /\ pc = "probe_ret" =>
        /\ insp_match => rc = "EADDRINUSE"
        /\ ((\A k \in 1..Len(probe_log) : probe_log[k].rc = OK)
            /\ ~queued_match) => rc = OK
        /\ rc = OK => (AllProbesSent /\ probe = 3)

\* C2 witness: the third inspection of a later candidate met a well-formed
\* frame sent from the candidate, and the probe returned -EADDRINUSE
C2_Witness ==
    /\ pc = "probe_ret"
    /\ insp_match
    /\ rc = "EADDRINUSE"
    /\ Len(probe_log) = 3
    /\ attempts > 0

\* the gateway the caller gave, 0.0.0.0 when absent
CallerGateway ==
    IF cmd.gateway.given THEN cmd.gateway.dotted ELSE << 0, 0, 0, 0 >>

\* C3: ipv4_add_miniroute is called at most once, and only for the attempt k
\* whose probe returned 0 after the attempts before it did not: with the
\* candidate of attempt k (and of no other attempt), netmask 255.255.0.0
\* and the caller's gateway; once a probe has returned 0 the call is made.
C3_InstallFirstClear ==
    /\ Len(installs) <= 1
    /\ \A n \in 1..Len(installs) :
        /\ clear_at \in 0..9
        /\ attempts = clear_at
        /\ gen_calls = clear_at + 1
        /\ clear_at > 0 => verdicts \ { "Clear" } # { }
        /\ installs[n].route.address = Htonl(apipa_generate_addr(netdev, clear_at))
        /\ \A j \in (0..9) \ { clear_at } :
             installs[n].route.address # Htonl(apipa_generate_addr(netdev, j))
        /\ installs[n].route.netmask = << 255, 255, 0, 0 >>
        /\ installs[n].route.gateway = CallerGateway
    /\ (clear_at >= 0 /\ pc # "install") => Len(installs) = 1
    /\ clear_at < 0 => installs = << >>

\* C3 witness: attempt 0 ended in a conflict, attempt 1 was clear and its
\* candidate was installed with the gateway given
C3_Witness ==
    /\ Len(installs) = 1
    /\ installs[1].rc = OK
    /\ clear_at = 1
    /\ verdicts = { "Conflict", "Clear" }
    /\ cmd.gateway.given

\* C4: when all 10 candidates ended with a conflict, apipa has returned
\* -EADDRINUSE and made no route, announcement or settings call.
C4_ExhaustionNoSideEffects ==
    (attempts = 10 /\ verdicts = { "Conflict" }) =>
        /\ pc = "done"
        /\ exit = "Exhausted"
        /\ rc = "EADDRINUSE"
        /\ installs = << >>
        /\ routes = << >>
        /\ ann_log = << >>
        /\ stores = << >>

\* C4 witness: ten conflicts
C4_Witness ==
    /\ pc = "done"
    /\ attempts = 10
    /\ gen_calls = 10
    /\ verdicts = { "Conflict" }

\* C5 as claimed: when apipa returns from the exhaustion check, every
\* candidate ended with a conflict.
C5_ExhaustedAllConflict ==
    exit = "Exhausted" => verdicts = { "Conflict" }

\* C5: when apipa returns from the exhaustion check (-EADDRINUSE), all 10
\* candidates were generated and none of them was clear: each ended with a
\* conflict or with a transmit error.
C5_ExhaustedNoneClear ==
    exit = "Exhausted" =>
        /\ pc = "done"
        /\ rc = "EADDRINUSE"
        /\ attempts = 10
        /\ gen_calls = 10
        /\ clear_at = -1
        /\ verdicts # { }
        /\ verdicts \subseteq { "Conflict", "TransmitFailed" }

\* C5 witness: all ten candidates ended with a transmit error
C5_Witness ==
    /\ exit = "Exhausted"
    /\ verdicts = { "TransmitFailed" }

NoProtocolActivity ==
    /\ gen_calls = 0
    /\ address = ZeroAddr
    /\ ~tx_any
    /\ probe_log = << >>
    /\ installs = << >>
    /\ routes = << >>
    /\ ann_log = << >>
    /\ stores = << >>

\* C6: once apipa() is past its checks, a device without link-layer
\* address or with its link down, or one that could not be opened, has made
\* it return an error with no candidate generated, no frame sent, no route
\* and no settings call.
C6_PreconditionAbort ==
    /\ (core_entered /\ pc # "apipa"
        /\ (~netdev.ll_protocol \/ ~netdev.ll_addr_ok \/ ~netdev.link_ok)) =>
            exit \in { "DeviceUnready", "OpenFailed", "LinkDown" }
    /\ exit \in { "DeviceUnready", "OpenFailed", "LinkDown" } =>
        /\ pc = "done"
        /\ rc # OK
        /\ NoProtocolActivity
    /\ exit = "DeviceUnready" => rc = "ENODEV"
    /\ exit = "LinkDown" => rc = netdev.link_rc

\* C6 witness: the device was opened and its link is down
C6_Witness ==
    /\ exit = "LinkDown"
    /\ netdev.open
    /\ ~netdev.link_ok

\* the number of arguments behind the interface name
NumSettings == IF Len(cmd.positional) > 0 THEN Len(cmd.positional) - 1 ELSE 0

\* C7: a command with an odd number of setting arguments ends with -EINVAL
\* without apipa() being called and without any transmission.
C7_OddSettingsRejected ==
    (pc # "exec" /\ NumSettings % 2 = 1) =>
        /\ pc = "done"
        /\ rc = "EINVAL"
        /\ ~core_entered
        /\ NoProtocolActivity

\* C7 witness: three setting arguments, valid options and gateway
C7_Witness ==
    /\ exit = "OddSettings"
    /\ NumSettings = 3
    /\ cmd.gateway = Text(<< 10, 0, 0, 1 >>)

\* the gateway text given is no dotted quad
MalformedGateway ==
    /\ cmd.gateway.given
    /\ \/ Len(cmd.gateway.dotted) # 4
       \/ \E k \in 1..Len(cmd.gateway.dotted) : cmd.gateway.dotted[k] > 255

\* apipa has returned the error of a setting name that did not parse
BadNameReturned ==
    /\ pc = "done"
    /\ stores # << >>
    /\ stores[Len(stores)].op = "parse"

\* C8 as claimed: when a malformed setting name ends the command, nothing
\* was transmitted, installed or announced before.
C8_BadNameBeforeActivity ==
    BadNameReturned => (~tx_any /\ installs = << >> /\ ann_log = << >>)

\* C8: a malformed gateway text and an odd number of setting arguments end
\* the command with -EINVAL before apipa() is called; a malformed setting
\* name is met only when its pair is reached by apipa_store_settings: the
\* probes were sent, the route installed, both announcements sent and
\* address and netmask stored before its error is returned.
C8_InvalidArgumentDetection ==
    /\ (pc # "exec"
        /\ (MalformedGateway \/ NumSettings % 2 = 1)) =>
            /\ pc = "done"
            /\ rc = "EINVAL"
            /\ ~core_entered
            /\ NoProtocolActivity
    /\ BadNameReturned =>
        /\ exit = "PersistFailed"
        /\ rc = stores[Len(stores)].rc
        /\ rc # OK
        /\ tx_any
        /\ AllProbesSent
        /\ Len(installs) = 1
        /\ Len(routes) = 1
        /\ Len(ann_log) = 3
        /\ ann_log[1].rc = OK /\ ann_log[3].rc = OK
        /\ Len(stores) >= 3
        /\ stores[1].setting = "ip" /\ stores[1].rc = OK
        /\ stores[2].setting = "netmask" /\ stores[2].rc = OK

\* C8 witness: a malformed name given as the first pair ended the command
\* after the gateway was stored
C8_Witness ==
    /\ BadNameReturned
    /\ Len(stores) = 4
    /\ stores[3].setting = "gateway"

\* C9: the announcement is made only for a route that was installed; its
\* calls are, in this order, a request with sender and target both the
\* installed address, a wait of 2000 ms, and a second such request; a
\* request that fails is the last call; the settings are reached only
\* after both requests succeeded.
C9_Announcer ==
    /\ ann_log # << >> =>
        (Len(installs) = 1 /\ installs[1].rc = OK /\ Len(routes) = 1)
    /\ Len(ann_log) <= 3
    /\ \A k \in 1..Len(ann_log) :
        /\ k \in { 1, 3 } =>
            /\ ann_log[k].kind = "tx"
            /\ ann_log[k].spa = installs[1].route.address
            /\ ann_log[k].tpa = installs[1].route.address
            /\ ann_log[k].rc # OK =>
                   (k = Len(ann_log) /\ pc = "done" /\ exit = "AnnounceFailed")
        /\ k = 2 => (ann_log[k].kind = "mdelay" /\ ann_log[k].ms = 2000)
    /\ (pc \in StorePcs \/ exit \in { "Success", "PersistFailed" }) =>
        (Len(ann_log) = 3 /\ ann_log[1].rc = OK /\ ann_log[3].rc = OK)

\* C9 witness: both announcements were sent and the command succeeded
C9_Witness ==
    /\ exit = "Success"
    /\ Len(ann_log) = 3
    /\ ann_log[3].rc = OK

\* C10: when ipv4_add_miniroute fails, apipa has returned its error: that
\* call is the only one, no candidate was generated after the clear one,
\* nothing was announced and no setting stored.
C10_InstallFailureTerminal ==
    (\E n \in 1..Len(installs) : installs[n].rc # OK) =>
        /\ pc = "done"
        /\ exit = "InstallFailed"
        /\ Len(installs) = 1
        /\ rc = installs[1].rc
        /\ routes = << >>
        /\ attempts = clear_at
        /\ gen_calls = clear_at + 1
        /\ ann_log = << >>
        /\ stores = << >>

\* C10 witness: the install failed for the candidate of a later attempt
C10_Witness ==
    /\ exit = "InstallFailed"
    /\ clear_at > 0
    /\ Len(installs) = 1

\* a gratuitous ARP transmission of the run failed
AnnounceTxFailed ==
    \E k \in 1..Len(ann_log) : ann_log[k].kind = "tx" /\ ann_log[k].rc # OK

\* C11: when a gratuitous ARP transmission fails (the first or the second),
\* apipa has returned the error of that transmission; the route installed
\* before it is still in the routing table, unchanged, and no settings call
\* was made.
C11_NoRollbackOnAnnounceFailure ==
    AnnounceTxFailed =>
        /\ pc = "done"
        /\ exit = "AnnounceFailed"
        /\ rc = ann_log[Len(ann_log)].rc
        /\ rc # OK
        /\ Len(installs) = 1
        /\ installs[1].rc = OK
        /\ routes = << installs[1].route >>
        /\ routes[1].address = address
        /\ stores = << >>
        /\ si = 0

\* C11 witness: the second announcement failed after the first was sent
C11_Witness ==
    /\ exit = "AnnounceFailed"
    /\ Len(ann_log) = 3
    /\ ann_log[1].rc = OK
    /\ ann_log[3].rc # OK
    /\ Len(routes) = 1

\* the storef_setting calls apipa_store_settings makes before the pairs
FixedStores == IF gateway # ZeroAddr THEN 3 ELSE 2

\* C12: the calls of apipa_store_settings are, in this order: the address,
\* the netmask, the gateway if it is not 0.0.0.0, then for each (name,
\* value) pair of argv in the order given the parse of the name and the
\* store of the value; a call that fails is the last call and its error is
\* returned, with the calls before it and the installed route left as they
\* were; on success every call was made, which are 2 calls when there is
\* neither gateway nor pair.
C12_PersistenceOrder ==
    /\ Len(stores) <= FixedStores + (Len(argv) \div 2)
    /\ \A k \in 1..Len(stores) :
        /\ k < Len(stores) => (stores[k].op = "store" /\ stores[k].rc = OK)
        /\ stores[k].op = "parse" => stores[k].rc # OK
        /\ stores[k].rc # OK =>
            /\ pc = "done"
            /\ exit = "PersistFailed"
            /\ rc = stores[k].rc
        /\ k = 1 =>
            /\ stores[k].op = "store"
            /\ stores[k].setting = "ip"
            /\ stores[k].value.dotted = routes[1].address
        /\ k = 2 =>
            /\ stores[k].op = "store"
            /\ stores[k].setting = "netmask"
            /\ stores[k].value.dotted = << 255, 255, 0, 0 >>
        /\ (k = 3 /\ FixedStores = 3) =>
            /\ stores[k].op = "store"
            /\ stores[k].setting = "gateway"
            /\ stores[k].value.dotted = CallerGateway
            /\ CallerGateway # << 0, 0, 0, 0 >>
        /\ k > FixedStores =>
            /\ stores[k].setting = argv[(2 * (k - FixedStores)) - 1]
            /\ stores[k].op = "store" =>
                   stores[k].value = argv[2 * (k - FixedStores)]
    /\ stores # << >> =>
        (Len(installs) = 1 /\ routes = << installs[1].route >>)
    /\ exit = "Success" =>
        /\ Len(stores) = FixedStores + (Len(argv) \div 2)
        /\ stores[Len(stores)].rc = OK
        /\ (CallerGateway = << 0, 0, 0, 0 >> /\ argv = << >>) =>
               Len(stores) = 2

\* C12 witness: with a gateway and two pairs given, the store of the second
\* pair failed after the four stores before it were made
C12_Witness ==
    /\ exit = "PersistFailed"
    /\ Len(stores) = 5
    /\ stores[3].setting = "gateway"
    /\ stores[4].setting = "hostname"
    /\ stores[5].setting = "user-class"
    /\ stores[5].op = "store"
    /\ Len(routes) = 1

\* C13: the value apipa_generate_addr returns for an attempt 0..9 differs
\* from the value it returns for every earlier attempt of the same device
\* (so the 10 candidates of a device are pairwise distinct), for every
\* link-layer address, also when seed + attempt * 65537 wraps modulo 2^32.
C13_CandidatesDistinct ==
    /\ Len(g_earlier) = g_attempt
    /\ g_addr # NoAddr =>
        \A a \in 1..Len(g_earlier) : g_earlier[a] # g_addr

\* C13 witness: the value of attempt 2 was returned for a device whose sum
\* wraps at that attempt, but not at the attempt before
C13_Witness ==
    /\ g_addr # NoAddr
    /\ g_attempt = 2
    /\ GenWraps
    /\ Le32(SeedOf(g_netdev),
            Add32(SeedOf(g_netdev),
                  ToU32((g_attempt - 1) * APIPA_ADDR_MULTIPLIER)))

\* the return statements of apipa()
Outcomes ==
    { "Success", "DeviceUnready", "OpenFailed", "LinkDown", "Exhausted",
      "InstallFailed", "AnnounceFailed", "PersistFailed" }

\* the arp_tx_request calls of the announcement
AnnounceTxs == { k \in 1..Len(ann_log) : ann_log[k].kind = "tx" }

\* how far the command has come: every step of it gets further, and "done"
\* is furthest
Progress ==
    CASE pc = "exec" -> 0
      [] pc = "apipa" -> 1
      [] pc = "generate" -> 10 + (1000 * attempts) + Len(rx_queue)
      [] pc \in ProbePcs ->
            10 + (1000 * attempts) + (100 * probe) + Len(rx_queue)
            + (CASE pc = "probe_poll" -> 10
                 [] pc = "probe_tx" -> 20
                 [] pc = "probe_wait" -> 30
                 [] pc = "probe_drain" -> 40
                 [] pc = "probe_delay" -> 50
                 [] pc = "probe_ret" -> 60)
      [] pc = "install" -> 20000
      [] pc = "announce" -> 20001 + announcement
      [] pc \in StorePcs ->
            20010 + si
            + (CASE pc = "store_ip" -> 0
                 [] pc = "store_netmask" -> 100
                 [] pc = "store_gateway" -> 200
                 [] pc = "store_pairs" -> 300)
      [] pc = "done" -> 30000

\* the code has a next step wherever it is, short of its return (the call
\* of apipa_generate_addr has no condition but its place in the loop)
NotStuck ==
    CASE pc = "exec" -> ENABLED apipa_exec
      [] pc = "apipa" -> ENABLED (PrecheckNoLL \/ PrecheckOpenFail
                                  \/ PrecheckLinkDown \/ PrecheckOk)
      [] pc = "generate" -> attempts < APIPA_MAX_ATTEMPTS
      [] pc = "probe_poll" -> ENABLED ProbePoll
      [] pc = "probe_tx" -> ENABLED (ProbeTxOk \/ ProbeTxFail)
      [] pc = "probe_wait" -> ENABLED ProbeCheck
      [] pc = "probe_drain" -> ENABLED (ProbeDrainConflict \/ ProbeDrainNext
                                        \/ ProbeDrainLast)
      [] pc = "probe_delay" -> ENABLED ProbeDelay
      [] pc = "probe_ret" -> ENABLED (VerdictClear \/ VerdictRetry)
      [] pc = "install" -> ENABLED ApipaInstall
      [] pc = "announce" -> ENABLED ApipaAnnounce
      [] pc = "store_ip" -> ENABLED StoreIp
      [] pc = "store_netmask" -> ENABLED StoreNetmask
      [] pc = "store_gateway" -> ENABLED StoreGateway
      [] pc = "store_pairs" -> ENABLED (StorePairBadName \/ StorePair
                                        \/ StoreDone)
      [] pc = "done" -> TRUE

RunBounds ==
    /\ NotStuck
    /\ (core_entered /\ pc = "done") =>
        /\ exit \in Outcomes
        /\ exit = "Success" <=> rc = OK
    /\ exit # NoValue => pc = "done"
    /\ gen_calls <= 10
    /\ n_probe_tx <= 30
    /\ n_probe_tx <= 3 * gen_calls
    /\ Cardinality(AnnounceTxs) <= 2
    /\ Len(installs) <= 1

\* C14: a run of apipa() never stops before it has returned, every step
\* brings it nearer to its return (so it returns after finitely many
\* steps), and it returns by exactly one of: success, a failed
\* precondition, -EADDRINUSE after 10 attempts, a failed install, a failed
\* announcement, a failed store; in one run at most 10 candidates are
\* generated, at most 30 probe requests and 2 announcements are
\* transmitted, and ipv4_add_miniroute is called at most once.
C14_BoundedRun ==
    /\ []RunBounds
    /\ [][Progress' > Progress /\ Progress' <= 30000]_vars

\* C14 witness: all 10 candidates got 3 probe requests each before the
\* command returned -EADDRINUSE
C14_Witness ==
    /\ pc = "done"
    /\ exit = "Exhausted"
    /\ gen_calls = 10
    /\ n_probe_tx = 30

\* the verdicts given so far: one for each attempt that was not clear, and
\* one for the clear attempt
VerdictsGiven == attempts + (IF clear_at >= 0 THEN 1 ELSE 0)

\* C15: a probe that returns a conflict or a transmit error for attempt
\* k < 9 does not end the run: the next step of apipa() is attempt k + 1,
\* which generates apipa_generate_addr(netdev, k + 1), a candidate that
\* differs from those of all attempts before, and probes it from the
\* start; a verdict is given only when a probe returns, once for each
\* candidate generated.
C15_RetryNextCandidate ==
    /\ [](/\ pc \in ProbePcs => (gen_calls = attempts + 1
                                  /\ VerdictsGiven = gen_calls - 1)
          /\ pc = "generate" => (gen_calls = attempts
                                 /\ VerdictsGiven = gen_calls)
          /\ pc \notin (ProbePcs \cup { "generate" }) =>
                VerdictsGiven = gen_calls)
    /\ [][
          /\ (pc = "probe_ret" /\ rc # OK /\ attempts < 9) =>
                /\ pc' = "generate"
                /\ attempts' = attempts + 1
                /\ exit' = NoValue
                /\ gen_calls' = gen_calls
          /\ (pc = "generate" /\ pc' # "generate") =>
                /\ pc' = "probe_poll"
                /\ address' = Htonl(apipa_generate_addr(netdev, attempts))
                /\ \A j \in 0..(attempts - 1) :
                      address' # Htonl(apipa_generate_addr(netdev, j))
                /\ gen_calls' = gen_calls + 1
                /\ probe' = 0
                /\ probe_log' = << >>
                /\ probe_trace' = << >>
          /\ (verdicts' # verdicts \/ clear_at' # clear_at
              \/ attempts' # attempts) => pc = "probe_ret"
       ]_vars

\* C15 witness: the candidate of attempt 2 is about to be probed, after
\* one candidate ended with a conflict and one with a transmit error
C15_Witness ==
    /\ pc = "probe_poll"
    /\ attempts = 2
    /\ gen_calls = 3
    /\ probe_trace = << >>
    /\ verdicts = { "Conflict", "TransmitFailed" }
    /\ address = Htonl(apipa_generate_addr(netdev, 2))

\* the places of a call in the trace of the current probe
TraceOf(call) == { k \in 1..Len(probe_trace) : probe_trace[k] = call }

\* C16: every probe request of apipa_probe_address has sender protocol
\* address 0.0.0.0 and the candidate as target; the probe returns 0 only
\* after exactly 3 requests, all of them sent; a request that fails is the
\* last call of the probe (no inspection, no poll and no request follows
\* it) and its error is what the probe returns.
C16_ProbeFrames ==
    /\ Cardinality(TraceOf("tx")) = Len(probe_log)
    /\ \A k \in 1..Len(probe_log) :
        /\ probe_log[k].spa = << 0, 0, 0, 0 >>
        /\ probe_log[k].tpa = address
        /\ probe_log[k].rc # OK =>
            /\ k = Len(probe_log)
            /\ probe_trace[Len(probe_trace)] = "tx"
            /\ Cardinality(TraceOf("check")) = k - 1
            /\ pc \in { "probe_ret", "generate", "done" }
            /\ pc = "probe_ret" => rc = probe_log[k].rc
    /\ (pc = "probe_ret" /\ rc = OK) =>
        /\ Len(probe_log) = 3
        /\ \A k \in 1..3 : probe_log[k].rc = OK
        /\ Cardinality(TraceOf("check")) = 3
    /\ (pc = "probe_ret" /\ rc \notin { OK, "EADDRINUSE" }) =>
        probe_log[Len(probe_log)].rc = rc

\* C16 witness: the second request of a probe failed, after the first was
\* sent and the queue inspected once
C16_Witness ==
    /\ pc = "probe_ret"
    /\ rc = "ENOBUFS"
    /\ Len(probe_log) = 2
    /\ probe_log[1].rc = OK
    /\ probe_trace = << "poll", "tx", "mdelay", "check", "poll", "delay",
                        "poll", "tx" >>

\* C17: in apipa_probe_address every probe request comes right after a
\* netdev_poll; every inspection is followed by one netdev_poll, and by
\* nothing else, before the wait between two probes or the return, also
\* when it found a conflict; the probe does not return right after an
\* inspection.
C17_DrainDiscipline ==
    /\ \A k \in TraceOf("tx") : (k > 1 /\ probe_trace[k - 1] = "poll")
    /\ pc = "probe_tx" => probe_trace[Len(probe_trace)] = "poll"
    /\ \A k \in TraceOf("check") :
        /\ k = Len(probe_trace) => pc = "probe_drain"
        /\ k < Len(probe_trace) => probe_trace[k + 1] = "poll"
        /\ k + 1 = Len(probe_trace) => pc \in { "probe_delay", "probe_ret",
                                                "generate", "install", "done",
                                                "announce" } \cup StorePcs
        /\ k + 1 < Len(probe_trace) => probe_trace[k + 2] = "delay"
    /\ pc = "probe_drain" => probe_trace[Len(probe_trace)] = "check"
    /\ pc = "probe_ret" =>
        /\ probe_trace[Len(probe_trace)] \in { "poll", "tx" }
        /\ rc = "EADDRINUSE" =>
            /\ probe_trace[Len(probe_trace)] = "poll"
            /\ probe_trace[Len(probe_trace) - 1] = "check"
        /\ rc = OK => Cardinality(TraceOf("poll")) = 6

\* C17 witness: the second inspection met a conflict, and the probe
\* returned after the poll that followed it
C17_Witness ==
    /\ pc = "probe_ret"
    /\ rc = "EADDRINUSE"
    /\ probe_trace = << "poll", "tx", "mdelay", "check", "poll", "delay",
                        "poll", "tx", "mdelay", "check", "poll" >>

\* C18: the step in which apipa_check_arp_conflict inspects the queue
\* leaves the queue as it is, entry by entry, whether it finds a conflict
\* or not; the queue changes only when a frame is received while the code
\* waits, and when the code calls netdev_poll.
C18_InspectionReadOnly ==
    [][
        /\ (pc = "probe_wait" /\ pc' # pc) =>
            /\ probe_trace' = probe_trace \o << "mdelay", "check" >>
            /\ conflict' = apipa_check_arp_conflict(netdev, rx_queue, address)
            /\ Len(rx_queue') = Len(rx_queue)
            /\ \A k \in 1..Len(rx_queue) : rx_queue'[k] = rx_queue[k]
        /\ rx_queue' # rx_queue =>
            \/ /\ Waiting
               /\ pc' = pc
               /\ probe_trace' = probe_trace
               /\ Len(rx_queue') = Len(rx_queue) + 1
               /\ SubSeq(rx_queue', 1, Len(rx_queue)) = rx_queue
            \/ /\ pc \in { "probe_poll", "probe_drain" }
               /\ probe_trace' = Append(probe_trace, "poll")
               /\ rx_queue' = netdev_poll(rx_queue)
    ]_vars

\* C18 witness: an inspection has found a conflict among two different
\* frames, and both are still queued
C18_Witness ==
    /\ pc = "probe_drain"
    /\ conflict
    /\ Len(rx_queue) = 2
    /\ rx_queue[1] # rx_queue[2]
    /\ probe_trace[Len(probe_trace)] = "check"

\* C19 as claimed: for a link-layer address of 8 or more bytes the second
\* loop adds nothing: the seed is the fold of the last 4 bytes alone, and
\* the address returned is the one that seed gives.
C19_SecondFoldOnlyShort ==
    (g_addr # NoAddr /\ LLAddrLen(g_netdev) >= 8) =>
        /\ SeedOf(g_netdev) = SeedStep1(g_netdev)
        /\ g_addr = Add32(APIPA_MIN,
                          Mod32(Add32(SeedStep1(g_netdev),
                                      ToU32(g_attempt * APIPA_ADDR_MULTIPLIER)),
                                addr_range))

\* C20: what apipa_probe_address returns is decided by its inspections
\* alone (and by the status of its requests): it returns -EADDRINUSE
\* exactly if an inspection met a conflicting frame, and 0 exactly if all
\* 3 requests were sent and no inspection met one.  The netdev_poll before
\* a request empties the queue without inspecting it, so a conflicting
\* frame received during the wait between two probes changes nothing: the
\* probe can still return 0 and the candidate be installed.
C20_VerdictFromInspections ==
    /\ [](pc = "probe_ret" =>
            /\ rc = "EADDRINUSE" <=> insp_match
            /\ rc = OK <=> (AllProbesSent /\ ~insp_match)
            /\ (missed_match /\ ~insp_match /\ AllProbesSent) => rc = OK)
    /\ [][
          (pc = "probe_poll" /\ pc' # pc) =>
              /\ pc' = "probe_tx"
              /\ rx_queue' = << >>
              /\ conflict' = conflict
              /\ insp_match' = insp_match
              /\ rc' = rc
              /\ TraceOf("check")' = TraceOf("check")
       ]_vars

\* C20 witness: a conflicting frame of the candidate was received between
\* two probes and drained without inspection; the probe returned 0 and the
\* candidate was installed
C20_Witness ==
    /\ missed_match
    /\ ~insp_match
    /\ clear_at = attempts
    /\ Len(installs) = 1
    /\ installs[1].rc = OK
    /\ routes = << installs[1].route >>
    /\ routes[1].address = address

=============================================================================
